---- MODULE Spec2Model ----
(***************************************************************************)
(* The concept map of Dialoga-con-Juan: the App component's graph state    *)
(* (nodes, links, activeNode), the handlers that mutate it, and the        *)
(* MindMap component's D3 effect (force simulation, drag handlers,         *)
(* cleanup).                                                               *)
(*                                                                         *)
(* Node records are JavaScript objects: the simulation and the drag        *)
(* handlers mutate them in place, and handleUpdateScore replaces them by   *)
(* copies.  The model therefore keeps a heap obj of node records and lets  *)
(* nodes, activeNode, the links' resolved endpoints and the drag gesture   *)
(* hold references into it.                                                *)
(*                                                                         *)
(* Each action is one JavaScript task run to completion: a handler, the    *)
(* state commit it causes and the re-run of the MindMap effect that the    *)
(* commit triggers (React applies the setState calls of one handler in one *)
(* commit), or one callback of D3 (timer tick, drag event).                *)
(***************************************************************************)
EXTENDS Integers, Sequences, FiniteSets, TLC

\* ---------------------------------------------------------------- bounds
MaxObjs == 3          \* node records ever allocated
MaxLinks == 2         \* links the graph may hold
MaxBatchNodes == 1    \* nodes in one expand result
MaxBatchLinks == 2    \* links in one expand result
MaxVel == 1           \* velocities a tick may leave a free node with: 0..MaxVel
MaxCoord == 1         \* coordinates range over 0..MaxCoord
MaxNow == 1           \* values of the clock read by Date.now()
AlphaDecayDen == 2    \* ticks cool alpha by 1/AlphaDecayDen of its distance to alphaTarget
MaxTurns == 2         \* debate turns in flight at a time

\* ------------------------------------------------------- program constants
NoObj == 0            \* null / no node record
NoCoord == -1         \* x, y undefined; fx, fy undefined or null
NoSim == 0            \* no simulation

\* alpha is kept in tenths.  d3's defaults (alphaMin 0.001, alphaDecay about
\* 0.0228) are scaled to that grid: the timer stops below the smallest positive
\* alpha, and each tick takes alpha 1/AlphaDecayDen of the way to alphaTarget.
AlphaOne == 10        \* alpha = 1, the alpha of a new simulation
AlphaMin == 1         \* alphaMin
AlphaTargetDrag == 3  \* simulation.alphaTarget(0.3)
MasteryStep == 25
MasteryMax == 100
WinScore == 7
NoYear == 0           \* year missing (d.year || 2000 also reads 0 as missing)
RootYear == 1838      \* INITIAL_NODE.year
YearMin == 1800       \* timeScale domain
YearMax == 2025
DefaultYear == 2000   \* d.year || 2000
RangePad == 50        \* timeScale range: [-width/2 + 50, width/2 - 50]
DefaultWidth == 800   \* useState({ width: 800, height: 600 })
ScaleMin == 1         \* scaleExtent([0.1, 4]), in tenths
ScaleMax == 40
ScaleOne == 10        \* zoomIdentity's scale 1, in tenths
PxDen == 450          \* x targets are kept in 1/PxDen px, which makes them integers

ObjIds == 1..MaxObjs
SimIds == 1..2
Coord == 0..MaxCoord
Vel == 0..MaxVel
Widths == {DefaultWidth, 1000}
\* scales a zoom gesture may ask for, in tenths: below and above the scale
\* extent
ScaleRequests == {ScaleMin - 1, ScaleMax + 1}
\* translations of the viewport: none, the centring one, one the user panned to
Translates == {"origin", "center", "pan"}
Clock == 0..MaxNow

RelationType == {"CRITIQUES", "EXPANDS_UPON", "INFLUENCED_BY", "OPPOSES", "RELATES_TO"}
BatchRelations == {"CRITIQUES"}
BatchIds == {"root", "a"}
LinkIds == BatchIds \cup {"zz"}
BatchTypes == {"concept"}
BatchYears == {NoYear, 1700, 1900, 2100}
Scores == {6, 7}
\* the suggestedNode a debate turn may return
Suggestions == [type : BatchTypes, relation : BatchRelations]

EvolvedId(t) == "evolved-" \o ToString(t)

Range(s) == {s[i] : i \in DOMAIN s}

Min(a, b) == IF a < b THEN a ELSE b

Max(a, b) == IF a > b THEN a ELSE b

\* Sequences over S of length 0..n
SeqUpTo(S, n) == UNION {[1..k -> S] : k \in 0..n}

VARIABLES
  obj,          \* heap of node records: ObjIds -> record
  nObj,         \* number of records allocated
  nodes,        \* App state nodes: sequence of references
  links,        \* App state links: sequence of link objects
  activeNode,   \* App state activeNode: reference or NoObj
  appViewMode,  \* App state viewMode: "map" or "list"
  viewMode,     \* MindMap state viewMode: "network" or "timeline"
  isLoading,    \* App state isLoading
  expandReq,    \* the handleExpandMap call in flight: the activeNode and the
                \* App viewMode of the render it was made in
  turnReq,      \* the debate turns in flight: for each the activeNode its
                \* handleSend captured, and whether the DebateInterface
                \* that sent it is still mounted
  isTyping,     \* DebateInterface state isTyping
  lastRole,     \* DebateInterface state messages: the role of its last
                \* message, "none" while no DebateInterface is mounted
  pendingSuggestion, \* DebateInterface state pendingSuggestion
  sims,         \* the simulations built by the MindMap effect
  cur,          \* the simulation whose cleanup the effect has registered
  drag,         \* the drag gesture in progress
  crashed,      \* the effect threw and React unmounted the tree
  now,          \* the last value Date.now() returned
  width,        \* MindMap state dimensions.width (the container's clientWidth)
  zoomT,        \* the zoom transform d3-zoom keeps on the svg element (__zoom)
  gT            \* the transform attribute of the g element that is displayed

vars == <<obj, nObj, nodes, links, activeNode, appViewMode, viewMode, isLoading,
          expandReq, turnReq, isTyping, lastRole, pendingSuggestion, sims, cur,
          drag, crashed, now, width, zoomT, gT>>

\* the state of the DebateInterface
debate == <<isTyping, lastRole, pendingSuggestion>>

\* vx, vy: a record d3 has not initialized has none, which initializeNodes
\* reads as 0
BlankObj == [id |-> "", type |-> "", year |-> NoYear, mastery |-> 0,
             x |-> NoCoord, y |-> NoCoord, fx |-> NoCoord, fy |-> NoCoord,
             vx |-> 0, vy |-> 0]

INITIAL_NODE == [id |-> "root", type |-> "root", year |-> RootYear, mastery |-> 100,
                 x |-> 0, y |-> 0, fx |-> NoCoord, fy |-> NoCoord,
                 vx |-> 0, vy |-> 0]

BlankSim == [running |-> FALSE, disposed |-> FALSE, alpha |-> 0, alphaTarget |-> 0,
             nodes |-> <<>>, nlinks |-> 0, linkForce |-> FALSE, mode |-> "network",
             xz |-> <<>>]

NoDrag == [sim |-> NoSim, d |-> NoObj]

\* d3.zoomIdentity, and d3.zoomIdentity.translate(width/2, height/2).scale(1)
ZoomIdentity == [k |-> ScaleOne, t |-> "origin"]

ZoomCenter == [k |-> ScaleOne, t |-> "center"]

NoReq == [active |-> NoObj, view |-> "map"]

\* pendingSuggestion === null, and result.suggestedNode absent
NoSuggestion == [type |-> "", relation |-> ""]


TypeOK ==
  /\ nObj \in 0..MaxObjs
  /\ nodes \in Seq(ObjIds)
  /\ activeNode \in ObjIds \cup {NoObj}
  /\ appViewMode \in {"map", "list"}
  /\ viewMode \in {"network", "timeline"}
  /\ isLoading \in BOOLEAN
  /\ turnReq \in SeqUpTo([active : ObjIds, live : BOOLEAN], MaxTurns)
  /\ isTyping \in BOOLEAN
  /\ lastRole \in {"none", "ai", "user"}
  /\ pendingSuggestion \in Suggestions \cup {NoSuggestion}
  /\ cur \in SimIds \cup {NoSim}
  /\ crashed \in BOOLEAN
  /\ now \in Clock
  /\ width \in Widths
  /\ zoomT \in [k : 0..(2 * ScaleMax), t : Translates]
  /\ gT \in [k : 0..(2 * ScaleMax), t : Translates]

\* ------------------------------------------------------------ d3-force
\* forceLink's id accessor (d => d.id) over a Map built from the node array:
\* of several nodes with one id the last one wins; NoObj when there is none.
FindNode(heap, ns, id) ==
  LET hits == {i \in DOMAIN ns : heap[ns[i]].id = id}
  IN IF hits = {} THEN NoObj
     ELSE ns[CHOOSE i \in hits : \A j \in hits : j <= i]

\* forceLink throws "node not found" on an endpoint that is still an id and
\* names no node.
Unresolvable(heap, ns, l) ==
  \/ l.sref = NoObj /\ FindNode(heap, ns, l.source) = NoObj
  \/ l.tref = NoObj /\ FindNode(heap, ns, l.target) = NoObj

\* index of the first link forceLink throws on, 0 when it throws on none
FirstBad(heap, ns, ls) ==
  LET bad == {i \in DOMAIN ls : Unresolvable(heap, ns, ls[i])}
  IN IF bad = {} THEN 0 ELSE CHOOSE i \in bad : \A j \in bad : i <= j

\* a link force that lays out fresh {source, target} objects of its own
ResolveLinkBare(heap, ns, l) ==
  [l EXCEPT !.sref = FindNode(heap, ns, l.source),
            !.tref = FindNode(heap, ns, l.target),
            !.relation = ""]

\* forceLink replaces an endpoint that is still an id by the node record; an
\* endpoint that is already a record is kept (typeof link.source === "object").
ResolveLink(heap, ns, l) ==
  LET s == IF l.sref # NoObj THEN l.sref ELSE FindNode(heap, ns, l.source)
      t == IF l.tref # NoObj THEN l.tref ELSE FindNode(heap, ns, l.target)
  IN IF s = NoObj THEN l
     ELSE IF t = NoObj THEN [l EXCEPT !.sref = s]
     ELSE [l EXCEPT !.sref = s, !.tref = t]

\* the link objects after forceLink's initialize ran over them, up to and
\* including the link it throws on
ForceLinkInit(heap, ns, ls) ==
  LET fb == FirstBad(heap, ns, ls)
  IN [i \in DOMAIN ls |->
        IF fb = 0 \/ i <= fb THEN ResolveLink(heap, ns, ls[i]) ELSE ls[i]]

\* an initializeNodes that seeds every node anew, at rest
InitializeNodeReseed(n) == [n EXCEPT !.x = 0, !.y = 0, !.vx = 0, !.vy = 0]

\* forceSimulation's initializeNodes: a pinned node is put on its pin, a node
\* without coordinates is seeded on the phyllotaxis spiral around the origin
\* (within 10*sqrt(i + 0.5) of it: cell 0 of the coordinate grid).
InitializeNode(n) ==
  LET px == IF n.fx # NoCoord THEN n.fx ELSE n.x
      py == IF n.fy # NoCoord THEN n.fy ELSE n.y
  IN IF px = NoCoord \/ py = NoCoord
       THEN [n EXCEPT !.x = 0, !.y = 0]
       ELSE [n EXCEPT !.x = px, !.y = py]

InitializeNodes(heap, ns) ==
  [o \in ObjIds |-> IF o \in Range(ns) THEN InitializeNode(heap[o]) ELSE heap[o]]

\* simulation.stop(), as called by the effect's cleanup
SimStop(s) == [s EXCEPT !.running = FALSE, !.disposed = TRUE]

\* timeScale = d3.scaleLinear().domain([1800, 2025])
\*               .range([-width / 2 + 50, width / 2 - 50]), in 1/PxDen px
RangeLo(w) == (PxDen \div 2) * (2 * RangePad - w)

RangeHi(w) == (PxDen \div 2) * (w - 2 * RangePad)

TimeScale(year, w) ==
  RangeLo(w) + ((year - YearMin) * (RangeHi(w) - RangeLo(w))) \div (YearMax - YearMin)

\* a fallback to the last year of the scale's domain
YearOrEdge(year) == IF year # NoYear THEN year ELSE YearMax

\* d.year || 2000
YearOrDefault(year) == IF year # NoYear THEN year ELSE DefaultYear

\* the target forceX pulls node n to, as its initialize caches it (xz[i]):
\* timeline forceX(d => timeScale(d.year || 2000)), network forceX(width / 2)
ForceXTarget(n, mode, w) ==
  IF mode = "timeline" THEN TimeScale(YearOrDefault(n.year), w)
  ELSE (PxDen \div 2) * w

ForceXTargets(heap, ns, mode, w) ==
  [i \in DOMAIN ns |-> ForceXTarget(heap[ns[i]], mode, w)]

\* a simulation as d3.forceSimulation(nodes) returns it: alpha 1, alphaTarget 0,
\* its timer started; xz are the x targets of the forceX installed after the
\* link force (none when the link force threw)
NewSim(ns, ls, mode, linkOk, xz) ==
  [running |-> TRUE, disposed |-> FALSE, alpha |-> AlphaOne, alphaTarget |-> 0,
   nodes |-> ns, nlinks |-> Len(ls), linkForce |-> linkOk, mode |-> mode,
   xz |-> IF linkOk THEN xz ELSE <<>>]

\* the slot the next simulation takes: the one of the simulation being torn
\* down, unless the drag gesture in progress still holds it
NewSlot ==
  IF cur # NoSim /\ cur # drag.sim THEN cur
  ELSE CHOOSE s \in SimIds :
         /\ s # drag.sim /\ s # cur
         /\ \A r \in SimIds : (r # drag.sim /\ r # cur) => s <= r

\* The MindMap D3 effect for the props (ns, ls), the mode and the width: the
\* cleanup of the previous run, then the body.  When forceLink throws, the
\* effect returns no cleanup and React unmounts the tree.  The body empties
\* the svg and appends a new g: in timeline mode g and the svg's zoom
\* transform are set to the centred transform, in network mode the new g has
\* no transform and the svg keeps the zoom transform it has.
D3Effect(heap, ns, ls, mode, w) ==
  LET cleaned == IF cur = NoSim THEN sims ELSE [sims EXCEPT ![cur] = SimStop(@)]
      seeded == InitializeNodes(heap, ns)
      fb == FirstBad(seeded, ns, ls)
  IN /\ obj' = seeded
     /\ links' = ForceLinkInit(seeded, ns, ls)
     /\ sims' = [cleaned EXCEPT ![NewSlot] =
                   NewSim(ns, ls, mode, fb = 0, ForceXTargets(seeded, ns, mode, w))]
     /\ cur' = IF fb = 0 THEN NewSlot ELSE NoSim
     /\ crashed' = (fb # 0)
     /\ zoomT' = IF fb # 0 THEN ZoomIdentity
                ELSE IF mode = "timeline" THEN ZoomCenter ELSE zoomT
     /\ gT' = IF fb = 0 /\ mode = "timeline" THEN ZoomCenter ELSE ZoomIdentity

\* a torn-down simulation that no drag gesture holds any more is forgotten
Forget(sim, held) ==
  IF ~held /\ sim.disposed /\ ~sim.running THEN BlankSim ELSE sim

\* the effect's cleanup alone (MindMap unmounts, the svg element goes with it)
D3Cleanup ==
  /\ sims' = IF cur = NoSim THEN sims
             ELSE [sims EXCEPT ![cur] = Forget(SimStop(@), drag.sim = cur)]
  /\ cur' = NoSim
  /\ zoomT' = ZoomIdentity
  /\ gT' = ZoomIdentity
  /\ UNCHANGED crashed

\* a commit whose new props do not re-run the effect
CommitNoRerun(heap, ns, ls) ==
  /\ nodes' = ns
  /\ obj' = heap
  /\ links' = ls
  /\ UNCHANGED <<sims, cur, crashed, zoomT, gT>>

\* App commits (heap, ns, ls): MindMap, when mounted, gets new props and its
\* effect re-runs (deps [nodes, links, dimensions, viewMode]).
Commit(heap, ns, ls) ==
  /\ nodes' = ns
  /\ IF appViewMode = "map"
       THEN D3Effect(heap, ns, ls, viewMode, width)
       ELSE obj' = heap /\ links' = ls /\ UNCHANGED <<sims, cur, crashed, zoomT, gT>>


\* ------------------------------------------------------------------ Init
Init ==
  /\ obj = [o \in ObjIds |-> IF o = 1 THEN INITIAL_NODE ELSE BlankObj]
  /\ nObj = 1
  /\ nodes = <<1>>
  /\ links = <<>>
  /\ activeNode = NoObj
  /\ appViewMode = "map"
  /\ viewMode = "network"
  /\ isLoading = FALSE
  /\ expandReq = NoReq
  /\ turnReq = <<>>
  /\ isTyping = FALSE
  /\ lastRole = "none"
  /\ pendingSuggestion = NoSuggestion
  /\ sims = [s \in SimIds |->
               IF s = 1 THEN NewSim(<<1>>, <<>>, "network", TRUE,
                                    <<ForceXTarget(INITIAL_NODE, "network", DefaultWidth)>>)
               ELSE BlankSim]
  /\ cur = 1
  /\ drag = NoDrag
  /\ crashed = FALSE
  /\ now = 0
  /\ width = DefaultWidth
  /\ zoomT = ZoomIdentity
  /\ gT = ZoomIdentity

\* ---------------------------------------------------------- App handlers
\* handleNodeClick: a click on a node's circle (map) or list entry (list)
\* hands over the node record of the current node array.
NodeClick(o) ==
  /\ ~crashed
  /\ o \in Range(nodes)
  /\ activeNode' = o
  /\ lastRole' = IF lastRole = "none" THEN "ai" ELSE lastRole
  /\ UNCHANGED <<obj, nObj, nodes, links, appViewMode, viewMode, isLoading,
                 expandReq, turnReq, isTyping, pendingSuggestion, sims, cur, drag,
                 crashed, now, width, zoomT, gT>>

\* DebateInterface onClose: setActiveNode(null) unmounts the DebateInterface;
\* its state is gone and the setters its turns in flight hold do nothing.
CloseDebate ==
  /\ ~crashed
  /\ activeNode # NoObj
  /\ activeNode' = NoObj
  /\ turnReq' = [i \in DOMAIN turnReq |-> [turnReq[i] EXCEPT !.live = FALSE]]
  /\ isTyping' = FALSE
  /\ lastRole' = "none"
  /\ pendingSuggestion' = NoSuggestion
  /\ UNCHANGED <<obj, nObj, nodes, links, appViewMode, viewMode, isLoading,
                 expandReq, sims, cur, drag, crashed, now, width, zoomT, gT>>

\* handleExpandMap up to its await: the Expand button is disabled while
\* isLoading; the call keeps the activeNode of the render it was made in.
ExpandStart ==
  /\ ~crashed
  /\ activeNode # NoObj
  /\ ~isLoading
  /\ isLoading' = TRUE
  /\ expandReq' = [active |-> activeNode, view |-> appViewMode]
  /\ UNCHANGED <<obj, nObj, nodes, links, activeNode, appViewMode, viewMode,
                 turnReq, debate, sims, cur, drag, crashed, now,
                 width, zoomT, gT>>

\* a map over the reply's nodes that marks each as a root
ExpandNodeAsRoot(n) == [id |-> n.id, type |-> "root", year |-> n.year, mastery |-> 0,
                        x |-> NoCoord, y |-> NoCoord, fx |-> NoCoord, fy |-> NoCoord,
                        vx |-> 0, vy |-> 0]

\* expandConcept's result node: the parsed node plus mastery 0, unlocked true;
\* no coordinates
ExpandNode(n) == [id |-> n.id, type |-> n.type, year |-> n.year, mastery |-> 0,
                  x |-> NoCoord, y |-> NoCoord, fx |-> NoCoord, fy |-> NoCoord,
                  vx |-> 0, vy |-> 0]

\* a link as parsed from the reply: both endpoints are ids
IdLink(s, t, r) == [source |-> s, target |-> t, relation |-> r,
                    sref |-> NoObj, tref |-> NoObj]

\* connectedLinks: the service's links, or one RELATES_TO link from the active
\* node to each new node when the service returned none
ConnectedLinks(active, newNodes, newLinks) ==
  IF Len(newLinks) > 0 THEN newLinks
  ELSE [i \in DOMAIN newNodes |-> IdLink(active.id, newNodes[i].id, "RELATES_TO")]

\* the heap after the records ns were allocated at nObj+1, nObj+2, ...
Alloc(heap, recs) ==
  [o \in ObjIds |-> IF o > nObj /\ o <= nObj + Len(recs) THEN recs[o - nObj]
                    ELSE heap[o]]

NewRefs(recs) == [i \in DOMAIN recs |-> nObj + i]

\* handleExpandMap after its await, for the result (newNodes, newLinks)
ExpandComplete(newNodes, newLinks) ==
  /\ ~crashed
  /\ expandReq # NoReq
  /\ nObj + Len(newNodes) <= MaxObjs
  /\ isLoading' = FALSE
  /\ expandReq' = NoReq
  /\ IF Len(newNodes) > 0
       THEN LET recs == [i \in DOMAIN newNodes |-> ExpandNode(newNodes[i])]
                added == ConnectedLinks(obj[expandReq.active], newNodes, newLinks)
            IN /\ Len(links) + Len(added) <= MaxLinks
               /\ nObj' = nObj + Len(recs)
               /\ Commit(Alloc(obj, recs), nodes \o NewRefs(recs), links \o added)
       ELSE UNCHANGED <<obj, nObj, nodes, links, sims, cur, crashed, zoomT, gT>>
  /\ UNCHANGED <<activeNode, appViewMode, viewMode, turnReq, debate, drag, now, width>>

\* DebateInterface handleSend up to its await, on a text the user typed that
\* is not blank; the call keeps the onUpdateScore (and so the activeNode) of
\* the render it was made in.  key "click" is the send button, which is
\* disabled while isTyping; key "Enter" is the input's onKeyDown, which is not.
HandleSend(key) ==
  /\ ~crashed
  /\ activeNode # NoObj
  /\ key = "click" => ~isTyping
  /\ Len(turnReq) < MaxTurns
  /\ turnReq' = Append(turnReq, [active |-> activeNode, live |-> TRUE])
  /\ isTyping' = TRUE
  /\ lastRole' = "user"
  /\ UNCHANGED <<obj, nObj, nodes, links, activeNode, appViewMode, viewMode,
                 isLoading, expandReq, pendingSuggestion, sims, cur, drag,
                 crashed, now, width, zoomT, gT>>

\* a text sent with the send button
SendMessage == HandleSend("click")

\* prev.map(n => n.id === activeNode.id ? {...n, mastery: min(100, n.mastery + 25)} : n)
\* the indices of nodes that are replaced by a copy
Matching(active) == {i \in DOMAIN nodes : obj[nodes[i]].id = obj[active].id}

Rank(i, S) == Cardinality({j \in S : j <= i})

\* a copy made without the spread of n: id and mastery only
MasteryCopyBare(n) ==
  [BlankObj EXCEPT !.id = n.id,
                   !.mastery = Min(MasteryMax, n.mastery + MasteryStep)]

\* a copy that adds the step without the cap
MasteryCopyUncapped(n) == [n EXCEPT !.mastery = n.mastery + MasteryStep]

MasteryCopy(n) == [n EXCEPT !.mastery = Min(MasteryMax, n.mastery + MasteryStep)]

\* record o is still reachable once the node array has let go of it: from
\* App's activeNode, the handler's own closure (active), an expand call in
\* flight, the drag gesture, a resolved link end, or a simulation that
\* outlives the commit
Referenced(o, active) ==
  \/ o = activeNode \/ o = active \/ o = expandReq.active \/ o = drag.d
  \/ \E i \in DOMAIN turnReq : turnReq[i].active = o
  \/ \E i \in DOMAIN links : links[i].sref = o \/ links[i].tref = o
  \/ \E s \in SimIds : (s # cur \/ s = drag.sim) /\ o \in Range(sims[s].nodes)

\* handleUpdateScore(score), with the activeNode its closure holds.  The copy
\* of a record nothing else refers to takes that record's place in the heap
\* (the original is garbage), any other copy is a new record.
HandleUpdateScore(score, active) ==
  IF score >= WinScore /\ active # NoObj /\ obj[active].mastery < MasteryMax
    THEN LET m == Matching(active)
             fresh == {i \in m : Referenced(nodes[i], active)}
             slot == [i \in m |-> IF i \in fresh THEN nObj + Rank(i, fresh)
                                                ELSE nodes[i]]
             heap == [o \in ObjIds |->
                        IF \E i \in m : slot[i] = o
                          THEN MasteryCopy(obj[nodes[CHOOSE i \in m : slot[i] = o]])
                          ELSE obj[o]]
             ns == [i \in DOMAIN nodes |-> IF i \in m THEN slot[i] ELSE nodes[i]]
         IN /\ nObj + Cardinality(fresh) <= MaxObjs
            /\ nObj' = nObj + Cardinality(fresh)
            /\ Commit(heap, ns, links)
    ELSE UNCHANGED <<obj, nObj, nodes, links, sims, cur, crashed, zoomT, gT>>

\* the sequence q without its i-th element
Without(q, i) == SubSeq(q, 1, i - 1) \o SubSeq(q, i + 1, Len(q))

\* handleSend after the await of turn i: setMessages, setIsTyping(false),
\* onUpdateScore(result.score), and setPendingSuggestion(result.suggestedNode)
\* when the reply has one
HandleReply(i, score, suggestion) ==
  /\ ~crashed
  /\ i \in DOMAIN turnReq
  /\ turnReq' = Without(turnReq, i)
  /\ HandleUpdateScore(score, turnReq[i].active)
  /\ IF turnReq[i].live
       THEN /\ lastRole' = "ai"
            /\ isTyping' = FALSE
            /\ pendingSuggestion' = IF suggestion # NoSuggestion THEN suggestion
                                                                ELSE pendingSuggestion
       ELSE UNCHANGED debate
  /\ UNCHANGED <<activeNode, appViewMode, viewMode, isLoading, expandReq,
                 drag, now, width>>

\* the reply of a turn in flight, without a suggestedNode
TurnReply(score) == \E i \in DOMAIN turnReq : HandleReply(i, score, NoSuggestion)

\* x: activeNode.x ? activeNode.x + 50 : 0   (coordinates in cells of 50)
BranchCoord(c) == IF c # NoCoord /\ c # 0 THEN c + 1 ELSE 0

\* year: activeNode.year || 2000
BranchYear(y) == IF y # NoYear THEN y ELSE DefaultYear

\* handleBranchEvolution(suggestion); t is what Date.now() returns, never
\* less than what it returned before
HandleBranchEvolution(type, relation, t) ==
  /\ ~crashed
  /\ activeNode # NoObj
  /\ nObj < MaxObjs
  /\ Len(links) < MaxLinks
  /\ t >= now
  /\ now' = t
  /\ LET newId == EvolvedId(t)
         newNode == [id |-> newId, type |-> type,
                     year |-> BranchYear(obj[activeNode].year), mastery |-> 0,
                     x |-> BranchCoord(obj[activeNode].x),
                     y |-> BranchCoord(obj[activeNode].y),
                     fx |-> NoCoord, fy |-> NoCoord, vx |-> 0, vy |-> 0]
         newLink == IdLink(obj[activeNode].id, newId, relation)
     IN /\ nObj' = nObj + 1
        /\ Commit(Alloc(obj, <<newNode>>), Append(nodes, nObj + 1),
                  Append(links, newLink))
  /\ UNCHANGED <<activeNode, appViewMode, viewMode, isLoading, expandReq,
                 turnReq, drag, width>>

\* a suggestion of the given type and relation is accepted, the
\* DebateInterface being as it was before the suggestion came
BranchEvolution(type, relation, t) ==
  HandleBranchEvolution(type, relation, t) /\ UNCHANGED debate

\* a pendingSuggestion that was handed to onBranchEvolve is kept
AcceptedKept(suggestion) == suggestion

\* handleAcceptSuggestion's setPendingSuggestion(null)
Accepted(suggestion) == NoSuggestion

\* handleAcceptSuggestion, the "Add to Map" button of the suggestion card,
\* which is rendered while pendingSuggestion is set
AcceptSuggestion(t) ==
  /\ activeNode # NoObj
  /\ pendingSuggestion # NoSuggestion
  /\ HandleBranchEvolution(pendingSuggestion.type, pendingSuggestion.relation, t)
  /\ pendingSuggestion' = Accepted(pendingSuggestion)
  /\ UNCHANGED <<isTyping, lastRole>>

\* handleDeclineSuggestion, the "Dismiss" button of the suggestion card
DeclineSuggestion ==
  /\ ~crashed
  /\ activeNode # NoObj
  /\ pendingSuggestion # NoSuggestion
  /\ pendingSuggestion' = NoSuggestion
  /\ UNCHANGED <<obj, nObj, nodes, links, activeNode, appViewMode, viewMode,
                 isLoading, expandReq, turnReq, isTyping, lastRole, sims, cur,
                 drag, crashed, now, width, zoomT, gT>>

\* App's view toggle: setViewMode('map' | 'list') mounts or unmounts MindMap;
\* a mounted MindMap starts in network mode
SetAppViewMode(v) ==
  /\ ~crashed
  /\ v # appViewMode
  /\ appViewMode' = v
  /\ viewMode' = "network"
  /\ IF v = "map"
       THEN D3Effect(obj, nodes, links, "network", width)
       ELSE D3Cleanup /\ UNCHANGED <<obj, links>>
  /\ UNCHANGED <<nObj, nodes, activeNode, isLoading, expandReq, turnReq, debate,
                 drag, now, width>>

\* MindMap's view switcher: setViewMode('network' | 'timeline'); setting the
\* mode it already has re-renders nothing
SetViewMode(m) ==
  /\ ~crashed
  /\ appViewMode = "map"
  /\ viewMode' = m
  /\ IF m # viewMode
       THEN D3Effect(obj, nodes, links, m, width)
       ELSE UNCHANGED <<obj, links, sims, cur, crashed, zoomT, gT>>
  /\ UNCHANGED <<nObj, nodes, activeNode, appViewMode, isLoading, expandReq,
                 turnReq, debate, drag, now, width>>

\* window resize to container width w: setDimensions({...}) is a new object,
\* the effect re-runs
Resize(w) ==
  /\ ~crashed
  /\ appViewMode = "map"
  /\ width' = w
  /\ D3Effect(obj, nodes, links, viewMode, w)
  /\ UNCHANGED <<nObj, nodes, activeNode, appViewMode, viewMode, isLoading,
                 expandReq, turnReq, debate, drag, now>>


\* ------------------------------------------------- d3 callbacks (MindMap)
\* simulation.tick: alpha += (alphaTarget - alpha) * alphaDecay
AlphaStep(a, target) == a + ((target - a) \div AlphaDecayDen)

\* a node loop that moves every node by its velocity
MoveNodeFree(n, p) == [n EXCEPT !.x = p.x, !.y = p.y, !.vx = p.vx, !.vy = p.vy]

\* the end of tick's node loop: a node with fx set is put on fx with vx 0, any
\* other moves by the velocity the forces gave it (here: to any cell p.x with
\* any velocity p.vx)
MoveNode(n, p) ==
  [n EXCEPT !.x = IF n.fx = NoCoord THEN p.x ELSE n.fx,
            !.y = IF n.fy = NoCoord THEN p.y ELSE n.fy,
            !.vx = IF n.fx = NoCoord THEN p.vx ELSE 0,
            !.vy = IF n.fy = NoCoord THEN p.vy ELSE 0]

\* the timer's step: tick(), then stop the timer once alpha < alphaMin
StepSim(sim) ==
  LET a == AlphaStep(sim.alpha, sim.alphaTarget)
  IN [sim EXCEPT !.alpha = a, !.running = ~(a < AlphaMin)]

\* one timer callback of simulation s, under forces that move the free nodes
\* to cells of the set cells and leave them with velocities of the set vels
Tick(s, cells, vels) ==
  /\ sims[s].running
  /\ sims' = [sims EXCEPT ![s] = StepSim(@)]
  /\ UNCHANGED <<nObj, nodes, links, activeNode, appViewMode, viewMode, isLoading,
                 expandReq, turnReq, debate, cur, drag, crashed, now,
                 width, zoomT, gT>>
  /\ \E pos \in [DOMAIN sims[s].nodes -> [x : cells, y : cells, vx : vels, vy : vels]] :
       obj' = [o \in ObjIds |->
                 IF o \in Range(sims[s].nodes)
                   THEN MoveNode(obj[o],
                          pos[CHOOSE i \in DOMAIN sims[s].nodes : sims[s].nodes[i] = o])
                   ELSE obj[o]]

\* the cell of node record n
Cell(n) == <<n.x, n.y>>

\* One timer callback of simulation s under a collision force that does all
\* it can: the forces, computed from where the nodes are when the tick
\* begins, leave every free node in a cell of its own, away from the cells
\* the pinned nodes are in; then, as in every tick, the pinned nodes are put
\* on their pins.  Two nodes in one cell are closer than the sum of their
\* radii, two nodes in different cells are not.
TickApart(s) ==
  /\ sims[s].running
  /\ sims' = [sims EXCEPT ![s] = StepSim(@)]
  /\ UNCHANGED <<nObj, nodes, links, activeNode, appViewMode, viewMode, isLoading,
                 expandReq, turnReq, debate, cur, drag, crashed, now, width, zoomT, gT>>
  /\ \E pos \in [DOMAIN sims[s].nodes -> [x : Coord, y : Coord, vx : {0}, vy : {0}]] :
       /\ \A i, j \in DOMAIN sims[s].nodes :
            (i # j /\ obj[sims[s].nodes[i]].fx = NoCoord)
              => /\ obj[sims[s].nodes[j]].fx = NoCoord => Cell(pos[i]) # Cell(pos[j])
                 /\ obj[sims[s].nodes[j]].fx # NoCoord
                      => Cell(pos[i]) # Cell(obj[sims[s].nodes[j]])
       /\ obj' = [o \in ObjIds |->
                    IF o \in Range(sims[s].nodes)
                      THEN MoveNode(obj[o],
                             pos[CHOOSE i \in DOMAIN sims[s].nodes : sims[s].nodes[i] = o])
                      ELSE obj[o]]

\* a zoom behaviour that takes the scale a gesture asks for as it is
ClampScaleNone(k) == k

\* d3-zoom's scale(): k = Math.max(scaleExtent[0], Math.min(scaleExtent[1], k))
ClampScale(k) == Max(ScaleMin, Min(ScaleMax, k))

\* a zoom handler that also reheats the simulation
ZoomedReheat(k, t) ==
  /\ ~crashed
  /\ cur # NoSim
  /\ [k |-> ClampScale(k), t |-> t] # zoomT
  /\ zoomT' = [k |-> ClampScale(k), t |-> t]
  /\ gT' = zoomT'
  /\ sims' = [sims EXCEPT ![cur] = [@ EXCEPT !.alpha = AlphaOne, !.running = TRUE]]
  /\ UNCHANGED <<obj, nObj, nodes, links, activeNode, appViewMode, viewMode,
                 isLoading, expandReq, turnReq, debate, cur, drag, crashed, now, width>>

\* a wheel, double-click or pan gesture on the svg that asks for scale k and
\* translation t and changes the zoom transform: d3-zoom stores the
\* constrained transform on the svg and the "zoom" listener of the effect
\* sets it on g
Zoomed(k, t) ==
  /\ ~crashed
  /\ cur # NoSim
  /\ [k |-> ClampScale(k), t |-> t] # zoomT
  /\ zoomT' = [k |-> ClampScale(k), t |-> t]
  /\ gT' = zoomT'
  /\ UNCHANGED <<obj, nObj, nodes, links, activeNode, appViewMode, viewMode,
                 isLoading, expandReq, turnReq, debate, sims, cur, drag, crashed, now, width>>

\* a dragstarted that sets the target and leaves the timer as it is
DragStartedSimNoRestart(sim) == [sim EXCEPT !.alphaTarget = AlphaTargetDrag]

\* dragstarted(event, d), event.active = 0:
\* simulation.alphaTarget(0.3).restart(); d.fx = d.x; d.fy = d.y
DragStartedSim(sim) == [sim EXCEPT !.alphaTarget = AlphaTargetDrag, !.running = TRUE]

DragStartedNode(n) == [n EXCEPT !.fx = n.x, !.fy = n.y]

\* pointer-down on the element of node record o of the rendered simulation
DragStart(o) ==
  /\ ~crashed
  /\ cur # NoSim
  /\ drag = NoDrag
  /\ o \in Range(sims[cur].nodes)
  /\ sims' = [sims EXCEPT ![cur] = DragStartedSim(@)]
  /\ obj' = [obj EXCEPT ![o] = DragStartedNode(@)]
  /\ drag' = [sim |-> cur, d |-> o]
  /\ UNCHANGED <<nObj, nodes, links, activeNode, appViewMode, viewMode, isLoading,
                 expandReq, turnReq, debate, cur, crashed, now,
                 width, zoomT, gT>>

\* dragged(event, d): d.fx = event.x; d.fy = event.y
DraggedNode(n, px, py) == [n EXCEPT !.fx = px, !.fy = py]

\* pointer-move of the gesture in progress (d3-drag listens on the window, so
\* the gesture outlives the element it started on)
Dragged(px, py) ==
  /\ drag # NoDrag
  /\ obj' = [obj EXCEPT ![drag.d] = DraggedNode(@, px, py)]
  /\ UNCHANGED <<nObj, nodes, links, activeNode, appViewMode, viewMode, isLoading,
                 expandReq, turnReq, debate, sims, cur, drag, crashed, now,
                 width, zoomT, gT>>

\* a dragended that restarts the timer of its simulation
DragEndedSimRestart(sim) == [sim EXCEPT !.alphaTarget = 0, !.running = TRUE]

\* a dragended that leaves the alpha target where dragstarted put it
DragEndedSimKeepTarget(sim) == sim

\* dragended(event, d), event.active = 0:
\* simulation.alphaTarget(0); d.fx = null; d.fy = null
DragEndedSim(sim) == [sim EXCEPT !.alphaTarget = 0]

DragEndedNode(n) == [n EXCEPT !.fx = NoCoord, !.fy = NoCoord]

\* pointer-up of the gesture in progress
DragEnd ==
  /\ drag # NoDrag
  /\ sims' = [sims EXCEPT ![drag.sim] = Forget(DragEndedSim(@), FALSE)]
  /\ obj' = [obj EXCEPT ![drag.d] = DragEndedNode(@)]
  /\ drag' = NoDrag
  /\ UNCHANGED <<nObj, nodes, links, activeNode, appViewMode, viewMode, isLoading,
                 expandReq, turnReq, debate, cur, crashed, now,
                 width, zoomT, gT>>

\* ------------------------------------------------------------------ Next
\* what a reply of the expand service may hold: node ids that are new or
\* already in the graph, link endpoints that name a node or none ("zz")
BatchNodesOf(years) == SeqUpTo([id : BatchIds, type : BatchTypes, year : years], MaxBatchNodes)

\* replies whose nodes all carry one in-domain year
BatchNodes == BatchNodesOf({1900})

BatchLinks ==
  SeqUpTo({IdLink(s, t, r) : s \in LinkIds, t \in LinkIds, r \in BatchRelations},
          MaxBatchLinks)

\* The graph and its handlers; every commit re-runs the MindMap effect.
Next ==
  \/ \E o \in ObjIds : NodeClick(o)
  \/ CloseDebate
  \/ ExpandStart
  \/ \E ns \in BatchNodes, ls \in BatchLinks : ExpandComplete(ns, ls)
  \/ \E ty \in BatchTypes, r \in BatchRelations, t \in Clock :
       BranchEvolution(ty, r, t)
  \/ \E v \in {"map", "list"} : SetAppViewMode(v)

Spec == Init /\ [][Next]_vars

\* Mutations against the timer: the handlers with the expand replies of
\* SimReplies, and timer ticks under forces that keep every node in cell 0.
SimReplies ==
  {<<ns, ls>> \in BatchNodes \X BatchLinks :
     /\ \A i \in DOMAIN ns : ns[i].id = "a" /\ ns[i].year = 1900
     /\ Len(ls) <= 1
     /\ \A i \in DOMAIN ls : ls[i].target = "a" /\ ls[i].source # "a"}

NextMut ==
  \/ \E o \in ObjIds : NodeClick(o)
  \/ CloseDebate
  \/ ExpandStart
  \/ \E r \in SimReplies : ExpandComplete(r[1], r[2])
  \/ turnReq = <<>> /\ SendMessage
  \/ \E score \in Scores : TurnReply(score)
  \/ \E ty \in BatchTypes, r \in BatchRelations :
       now < MaxNow /\ BranchEvolution(ty, r, now + 1)
  \/ \E v \in {"map", "list"} : SetAppViewMode(v)
  \/ \E s \in SimIds : Tick(s, {0}, {0})

SpecMut == Init /\ [][NextMut]_vars

\* The layout's life cycle: mount and unmount, mode switch, resize, branch
\* mutations, timer ticks and drag gestures.
NextSim ==
  \/ \E o \in ObjIds : NodeClick(o)
  \/ \E ty \in BatchTypes, r \in BatchRelations :
       now < MaxNow /\ BranchEvolution(ty, r, now + 1)
  \/ \E v \in {"map", "list"} : SetAppViewMode(v)
  \/ \E m \in {"network", "timeline"} : SetViewMode(m)
  \/ Resize(width)
  \/ \E s \in SimIds : Tick(s, {0}, {0})
  \/ \E o \in ObjIds : DragStart(o)
  \/ Dragged(0, 0)
  \/ DragEnd

SpecSim == Init /\ [][NextSim]_vars

\* Drag gestures against mastery updates: the root and one branch node, debate
\* turns, timer ticks and drags with every node kept in cell 0.
NextDrag ==
  \/ \E o \in ObjIds : NodeClick(o)
  \/ SendMessage
  \/ \E sc \in Scores : TurnReply(sc)
  \/ \E ty \in BatchTypes, r \in BatchRelations :
       Len(nodes) < 2 /\ BranchEvolution(ty, r, now)
  \/ \E s \in SimIds : Tick(s, {0}, {0})
  \/ \E o \in ObjIds : DragStart(o)
  \/ Dragged(0, 0)
  \/ DragEnd

SpecDrag == Init /\ [][NextDrag]_vars

\* Pins and positions: the root and one branch node (whose insertion rebuilds
\* the layout), and ticks and drags over all cells.
NextPin ==
  \/ \E o \in ObjIds : NodeClick(o)
  \/ \E ty \in BatchTypes, r \in BatchRelations :
       Len(nodes) < 2 /\ BranchEvolution(ty, r, now)
  \/ \E s \in SimIds : Tick(s, Coord, {0})
  \/ \E o \in ObjIds : DragStart(o)
  \/ \E px \in Coord, py \in Coord : Dragged(px, py)
  \/ DragEnd

SpecPin == Init /\ [][NextPin]_vars

\* The root alone, laid out in either mode: mode switches, drags over every
\* cell and ticks under forces that may move a free node to any cell with any
\* velocity.
NextMode ==
  \/ \E m \in {"network", "timeline"} : SetViewMode(m)
  \/ \E s \in SimIds : Tick(s, Coord, Vel)
  \/ \E o \in ObjIds : DragStart(o)
  \/ \E px, py \in Coord : Dragged(px, py)
  \/ DragEnd

SpecMode == Init /\ [][NextMode]_vars

\* replies of the expand service with nodes of any year, none included, and
\* no links (handleExpandMap then links each node to the active one)
TimeReplies ==
  {ns \in BatchNodesOf(BatchYears) : \A i \in DOMAIN ns : ns[i].id = "a"}

\* The graph grows by expand results whose nodes carry any year, and is laid
\* out in either mode at either width.
NextTime ==
  \/ \E o \in ObjIds : NodeClick(o)
  \/ ExpandStart
  \/ \E ns \in TimeReplies : ExpandComplete(ns, <<>>)
  \/ \E m \in {"network", "timeline"} : SetViewMode(m)
  \/ \E w \in Widths : Resize(w)
  \/ \E s \in SimIds : Tick(s, {0}, {0})

SpecTime == Init /\ [][NextTime]_vars

\* The root and the nodes of one expand result, all later than the root, laid
\* out in either mode under forces that take every free node to cell 0 (so
\* no two free nodes are ever out of order), with drags along x.
NextOrder ==
  \/ \E o \in ObjIds : NodeClick(o)
  \/ ExpandStart
  \/ \E ns \in TimeReplies \cap BatchNodes :
       Len(nodes) < 2 /\ ExpandComplete(ns, <<>>)
  \/ \E m \in {"network", "timeline"} : SetViewMode(m)
  \/ \E s \in SimIds : Tick(s, {0}, {0})
  \/ \E o \in ObjIds : DragStart(o)
  \/ \E px \in Coord : Dragged(px, 0)
  \/ DragEnd

SpecOrder == Init /\ [][NextOrder]_vars

\* The root and one branch node under an ideal collision force, with mode
\* switches and drags along x.
NextApart ==
  \/ \E o \in ObjIds : NodeClick(o)
  \/ \E ty \in BatchTypes, r \in BatchRelations :
       Len(nodes) < 2 /\ BranchEvolution(ty, r, now)
  \/ \E m \in {"network", "timeline"} : SetViewMode(m)
  \/ \E s \in SimIds : TickApart(s)
  \/ \E o \in ObjIds : DragStart(o)
  \/ \E px \in Coord : Dragged(px, 0)
  \/ DragEnd

SpecApart == Init /\ [][NextApart]_vars

\* the links of a reply that holds one link at the most
GrowLinks ==
  SeqUpTo({IdLink(s, t, r) : s \in LinkIds, t \in LinkIds, r \in BatchRelations}, 1)

\* Every way the node array and the link sequence change: expand results
\* with at most one link, accepted suggestions, won debate turns.
NextGrow ==
  \/ \E o \in ObjIds : NodeClick(o)
  \/ ExpandStart
  \/ \E ns \in BatchNodes, ls \in GrowLinks : ExpandComplete(ns, ls)
  \/ turnReq = <<>> /\ SendMessage
  \/ \E score \in Scores : TurnReply(score)
  \/ \E ty \in BatchTypes, r \in BatchRelations, t \in Clock :
       BranchEvolution(ty, r, t)

SpecGrow == Init /\ [][NextGrow]_vars

\* The debate: texts sent with the button or with Enter, replies with and
\* without a suggestion, in any order, suggestions accepted and dismissed,
\* the panel closed and opened again.
NextDebate ==
  \/ \E o \in ObjIds : NodeClick(o)
  \/ CloseDebate
  \/ \E key \in {"click", "Enter"} : HandleSend(key)
  \/ \E i \in 1..MaxTurns, score \in Scores, sg \in Suggestions \cup {NoSuggestion} :
       HandleReply(i, score, sg)
  \/ \E t \in Clock : AcceptSuggestion(t)
  \/ DeclineSuggestion

SpecDebate == Init /\ [][NextDebate]_vars

\* The graph grows by one node, from an expand result without links or from
\* an accepted suggestion, after ticks that may have moved the root to any
\* cell.
NextSeed ==
  \/ \E o \in ObjIds : NodeClick(o)
  \/ ExpandStart
  \/ \E ns \in TimeReplies \cap BatchNodes :
       Len(nodes) < 2 /\ ExpandComplete(ns, <<>>)
  \/ \E ty \in BatchTypes, r \in BatchRelations :
       Len(nodes) < 2 /\ BranchEvolution(ty, r, now)
  \/ \E s \in SimIds : Tick(s, Coord, {0})

SpecSeed == Init /\ [][NextSeed]_vars

\* pan and zoom gestures that ask for the scale the viewport has or for one
\* of ScaleRequests
ZoomGesture ==
  \E k \in ScaleRequests \cup {zoomT.k}, t \in Translates : Zoomed(k, t)

\* Pan and zoom gestures between graph mutations, mode switches, ticks and
\* drags.
NextZoom ==
  \/ \E o \in ObjIds : NodeClick(o)
  \/ \E ty \in BatchTypes, r \in BatchRelations :
       now < MaxNow /\ BranchEvolution(ty, r, now + 1)
  \/ \E m \in {"network", "timeline"} : SetViewMode(m)
  \/ ZoomGesture
  \/ \E s \in SimIds : Tick(s, {0}, {0})
  \/ \E o \in ObjIds : DragStart(o)
  \/ Dragged(0, 0)
  \/ DragEnd

SpecZoom == Init /\ [][NextZoom]_vars

\* ================================================================ claims
NodeIds == {obj[nodes[i]].id : i \in DOMAIN nodes}

\* a link as the reply gave it: source id, target id, relation
LinkTriple(l) == <<l.source, l.target, l.relation>>

LinkTriples(ls) == [i \in DOMAIN ls |-> LinkTriple(ls[i])]

\* C1: after any sequence of node insertions (expand results, accepted branch
\* suggestions) no two nodes of the node set have the same id.
C1_NoDuplicateIds ==
  \A i, j \in DOMAIN nodes : i # j => obj[nodes[i]].id # obj[nodes[j]].id

\* C2: every link of the committed graph has a source id and a target id that
\* both belong to the current node set.
C2_LinksReferToNodes ==
  \A i \in DOMAIN links : links[i].source \in NodeIds /\ links[i].target \in NodeIds

\* the step in which the handleExpandMap call in flight applies its reply
ExpandCompletes == expandReq # NoReq /\ expandReq' = NoReq

\* the links of ls whose endpoints both name a node of the set ids, in order
ValidLinks(ls, ids) ==
  SelectSeq(LinkTriples(ls), LAMBDA l : l[1] \in ids /\ l[2] \in ids)

\* C3: when an expand reply is applied, exactly its links with two known
\* endpoints are appended, in their order, after the links committed before,
\* and no error is raised.
C3_ValidLinksAppended ==
  [][ExpandCompletes =>
       \A ns \in BatchNodes, ls \in BatchLinks :
          ExpandComplete(ns, ls) =>
             /\ LinkTriples(links') = LinkTriples(links) \o ValidLinks(ls, NodeIds')
             /\ ~crashed']_vars

\* C4: every simulation whose timer runs was built from the node array and the
\* link array of the last commit, so each of its ticks reads one committed
\* pair and never the nodes of one stage with the links of another.
C4_TickReadsCommitted ==
  \A s \in SimIds :
     sims[s].running => sims[s].nodes = nodes /\ sims[s].nlinks = Len(links)

\* a simulation built for a graph grown by a reply or a branch has ticked
C4_Witness ==
  /\ cur # NoSim
  /\ sims[cur].running
  /\ sims[cur].alpha < AlphaOne
  /\ Len(nodes) > 1
  /\ Len(links) > 0

\* C5: the timer of a torn-down simulation never runs again, so no tick of it
\* fires, whatever the handlers that still hold it are sent.
C5_NoTickAfterTeardown ==
  \A s \in SimIds : sims[s].disposed => ~sims[s].running

\* a drag gesture in progress holds a simulation that was torn down under it
C5_Witness ==
  /\ drag # NoDrag
  /\ drag.sim # cur
  /\ sims[drag.sim].disposed
  /\ sims[drag.sim].alphaTarget = AlphaTargetDrag

\* C6: the reply of an expand request made while the map was shown and applied
\* after the map was torn down adds no node and no link.
C6_InFlightExpandDiscarded ==
  [][(ExpandCompletes /\ expandReq.view = "map" /\ appViewMode = "list")
       => (nodes' = nodes /\ links' = links)]_vars

\* the steps the reheat rule names
GraphMutates == nodes' # nodes \/ Len(links') # Len(links)

ModeChanges == appViewMode = "map" /\ appViewMode' = "map" /\ viewMode' # viewMode

DragBegins == drag = NoDrag /\ drag' # NoDrag

TimerFires == \E s \in SimIds : Tick(s, {0}, {0})

\* Cooling: branch mutations, mode switches, drag gestures and timer ticks
NextLive ==
  \/ \E o \in ObjIds : NodeClick(o)
  \/ \E ty \in BatchTypes, r \in BatchRelations :
       now < MaxNow /\ BranchEvolution(ty, r, now + 1)
  \/ \E m \in {"network", "timeline"} : SetViewMode(m)
  \/ TimerFires
  \/ \E o \in ObjIds : DragStart(o)
  \/ Dragged(0, 0)
  \/ DragEnd

SpecLive == Init /\ [][NextLive]_vars /\ WF_vars(TimerFires)

AllIdle == \A s \in SimIds : ~sims[s].running

\* C8: once no mutation, mode switch or drag event happens any more and no
\* drag is in progress, the timers stop after finitely many ticks and stay
\* stopped.
C8_IdleConvergence ==
  (<>[](drag = NoDrag) /\ <>[][TimerFires]_vars) => <>[]AllIdle

\* the simulation of the view has cooled down to idle for a grown graph
C8_Witness ==
  /\ AllIdle
  /\ drag = NoDrag
  /\ cur # NoSim
  /\ sims[cur].alpha < AlphaMin
  /\ Len(nodes) > 1

\* C9: after every tick of a simulation, each of its nodes with fx set has
\* x = fx and each of its nodes with fy set has y = fy.
C9_PinHolds ==
  [][\A s \in SimIds :
       \/ \A o \in Range(sims[s].nodes) :
            /\ obj'[o].fx # NoCoord => obj'[o].x = obj'[o].fx
            /\ obj'[o].fy # NoCoord => obj'[o].y = obj'[o].fy
       \/ ~Tick(s, Coord, {0})]_vars

\* the root, dragged since before the first tick of the simulation and pinned
\* on the far cell of x, sits on its pin after that tick
C9_Witness ==
  /\ drag # NoDrag
  /\ drag.sim = cur
  /\ sims[cur].alpha = AlphaStep(AlphaOne, AlphaTargetDrag)
  /\ obj[drag.d].id = "root"
  /\ obj[drag.d].fx = MaxCoord
  /\ obj[drag.d].x = MaxCoord
  /\ obj[drag.d].fy = 0
  /\ obj[drag.d].y = 0

\* the step in which the pointer-up of the drag gesture is handled
DragEnds == drag # NoDrag /\ drag' = NoDrag

\* C10: after the pointer-up that ends the drag of a node, that node has
\* neither fx nor fy set in the node set that is laid out.
C10_DragEndClearsPin ==
  [][DragEnds =>
       \A i \in DOMAIN nodes' :
          obj'[nodes'[i]].id = obj[drag.d].id
            => obj'[nodes'[i]].fx = NoCoord /\ obj'[nodes'[i]].fy = NoCoord]_vars

\* a drag gesture that began in a simulation the effect has since replaced
DragOutlivedItsSim == drag # NoDrag /\ cur # NoSim /\ drag.sim # cur

\* C11: a drag in progress when the projection mode is switched is preserved:
\* the switch leaves the gesture and the pin of the dragged node as they
\* were, and from then on the pointer-moves of the gesture still move the
\* node in the simulation that lays out the graph, that is the node is on
\* its pin or that simulation's timer runs and its next tick puts it there.
C11_DragSurvivesSwitch ==
  [][/\ (drag # NoDrag /\ ModeChanges)
          => /\ drag' = drag
             /\ obj'[drag.d].fx = obj[drag.d].fx
             /\ obj'[drag.d].fy = obj[drag.d].fy
             /\ obj'[drag.d].fx # NoCoord
     /\ DragOutlivedItsSim'
          => /\ drag'.d \in Range(sims'[cur'].nodes)
             /\ \/ sims'[cur'].running
                \/ /\ obj'[drag'.d].x = obj'[drag'.d].fx
                   /\ obj'[drag'.d].y = obj'[drag'.d].fy]_vars

\* where the effect's new simulation puts node n at once: on its pin, when it
\* has one, and else where it is
AfterRebuild(n) ==
  [x |-> IF n.fx # NoCoord THEN n.fx ELSE n.x,
   y |-> IF n.fy # NoCoord THEN n.fy ELSE n.y]

Moves(o) == obj'[o].x # obj[o].x \/ obj'[o].y # obj[o].y

\* C12 as stated: a mode switch leaves every node's position and velocity as
\* they were, and a position changes in a tick only.
C12_SwitchKeepsAll ==
  [][\A o \in Range(nodes) :
       /\ ModeChanges
            => /\ obj'[o].x = obj[o].x /\ obj'[o].y = obj[o].y
               /\ obj'[o].vx = obj[o].vx /\ obj'[o].vy = obj[o].vy
       /\ ~Moves(o) \/ \E s \in SimIds : Tick(s, Coord, Vel)]_vars

\* C12: a mode switch leaves every node's velocity as it was and its position
\* too, except that a pinned node is put on its pin; a position changes only
\* in a tick or when a switch puts a pinned node on its pin.
C12_SwitchKeepsLayout ==
  [][\A o \in Range(nodes) :
       /\ ModeChanges
            => /\ obj'[o].x = AfterRebuild(obj[o]).x
               /\ obj'[o].y = AfterRebuild(obj[o]).y
               /\ obj'[o].vx = obj[o].vx /\ obj'[o].vy = obj[o].vy
       /\ \/ ~Moves(o)
          \/ ModeChanges /\ (obj[o].fx # NoCoord \/ obj[o].fy # NoCoord)
          \/ \E s \in SimIds : Tick(s, Coord, Vel)]_vars

\* the timeline simulation has just been built (no tick of it yet) over a
\* free root that was away from the origin and in motion, and the root still
\* is where it was, with the velocity it had
C12_Witness ==
  /\ viewMode = "timeline"
  /\ cur # NoSim
  /\ sims[cur].alpha = AlphaOne
  /\ drag = NoDrag
  /\ \E o \in Range(nodes) :
       /\ obj[o].fx = NoCoord
       /\ obj[o].x = MaxCoord /\ obj[o].y = MaxCoord
       /\ obj[o].vx = MaxVel /\ obj[o].vy = MaxVel

\* the timeline simulation that lays out the graph
TimelineShown == ~crashed /\ cur # NoSim /\ sims[cur].mode = "timeline"

\* the year of the i-th node of simulation s
YearAt(s, i) == obj[sims[s].nodes[i]].year

\* C13: in timeline mode the x target of a node does not decrease with its
\* year, and for a year outside [1800, 2025] it is the target of the nearest
\* edge of that domain.
C13_MonotoneAndClamped ==
  TimelineShown =>
    /\ \A i, j \in DOMAIN sims[cur].nodes :
         (YearAt(cur, i) # NoYear /\ YearAt(cur, j) # NoYear
            /\ YearAt(cur, i) <= YearAt(cur, j))
           => sims[cur].xz[i] <= sims[cur].xz[j]
    /\ \A i \in DOMAIN sims[cur].nodes :
         /\ (YearAt(cur, i) # NoYear /\ YearAt(cur, i) < YearMin)
              => sims[cur].xz[i] = TimeScale(YearMin, width)
         /\ YearAt(cur, i) > YearMax
              => sims[cur].xz[i] = TimeScale(YearMax, width)

\* C14 as stated: in timeline mode a node without a year has the x target
\* of the right edge of the year domain, that of year 2025.
C14_MissingYearAtRightEdge ==
  TimelineShown =>
    \A i \in DOMAIN sims[cur].nodes :
       YearAt(cur, i) = NoYear => sims[cur].xz[i] = TimeScale(YearMax, width)

\* C14: in timeline mode a node without a year has the x target of year
\* 2000, which lies left of the right edge of the year domain.
C14_MissingYearAtDefault ==
  TimelineShown =>
    \A i \in DOMAIN sims[cur].nodes :
       YearAt(cur, i) = NoYear
         => /\ sims[cur].xz[i] = TimeScale(DefaultYear, width)
            /\ sims[cur].xz[i] < TimeScale(YearMax, width)

\* a node without a year is laid out in timeline mode at the wider width
C14_Witness ==
  /\ TimelineShown
  /\ width # DefaultWidth
  /\ \E i \in DOMAIN sims[cur].nodes : YearAt(cur, i) = NoYear

\* C15: in timeline mode, once the simulation has gone idle, any two nodes a
\* and b with year(a) < year(b), the fallback year standing in for a missing
\* one, have x(a) <= x(b).
C15_SettledOrder ==
  (TimelineShown /\ ~sims[cur].running) =>
    \A i, j \in DOMAIN sims[cur].nodes :
       YearOrDefault(YearAt(cur, i)) < YearOrDefault(YearAt(cur, j))
         => obj[sims[cur].nodes[i]].x <= obj[sims[cur].nodes[j]].x

\* C16: the scale of the viewport, as d3-zoom keeps it and as it is
\* displayed, stays within the scale extent [0.1, 4] whatever gestures, mode
\* switches and graph mutations happen.
C16_ScaleInRange ==
  /\ ScaleMin <= zoomT.k /\ zoomT.k <= ScaleMax
  /\ ScaleMin <= gT.k /\ gT.k <= ScaleMax

\* the graph has grown after a gesture that asked for more than the largest
\* scale: the stored scale is the largest one
C16_Witness ==
  /\ Len(nodes) > 1
  /\ cur # NoSim
  /\ zoomT.k = ScaleMax
  /\ gT = ZoomIdentity

\* C17: a pan or zoom gesture leaves every node record (position, velocity,
\* pin), the node and link sets and every simulation (alpha, timer) as they
\* were.
C17_GestureMovesViewportOnly ==
  [][UNCHANGED <<obj, nObj, nodes, links, sims, cur, drag>> \/ ~ZoomGesture]_vars

\* a gesture has zoomed out to the smallest scale while a node is being
\* dragged and the simulation, part of the way down from alpha 1, is running
C17_Witness ==
  /\ gT.k = ScaleMin
  /\ zoomT = gT
  /\ drag # NoDrag
  /\ drag.sim = cur
  /\ sims[cur].running
  /\ sims[cur].alpha < AlphaOne
  /\ obj[drag.d].fx # NoCoord

\* C18: after any sequence of mastery updates and insertions the mastery of
\* every node of the graph is within [0, 100].
C18_MasteryInRange ==
  \A i \in DOMAIN nodes :
     0 <= obj[nodes[i]].mastery /\ obj[nodes[i]].mastery <= MasteryMax

\* a node inserted with mastery 0 has been raised to 100, while the record
\* the debate holds as activeNode still reads 0, so that the next won turn
\* adds to it again
C18_Witness ==
  /\ activeNode # NoObj
  /\ obj[activeNode].mastery = 0
  /\ \E i \in DOMAIN nodes :
       /\ obj[nodes[i]].id = obj[activeNode].id
       /\ obj[nodes[i]].mastery = MasteryMax

\* C20: the graph is append-only: in every step the node array keeps its
\* nodes in place, each with the id, type and year it had (so the set of ids
\* loses nothing), and the link sequence keeps its links, as the replies gave
\* them, as a prefix; nodes and links are only added at the end.
C20_AppendOnly ==
  [][/\ Len(nodes') >= Len(nodes)
     /\ \A i \in DOMAIN nodes :
          /\ obj'[nodes'[i]].id = obj[nodes[i]].id
          /\ obj'[nodes'[i]].type = obj[nodes[i]].type
          /\ obj'[nodes'[i]].year = obj[nodes[i]].year
     /\ NodeIds \subseteq NodeIds'
     /\ Len(links') >= Len(links)
     /\ SubSeq(LinkTriples(links'), 1, Len(links)) = LinkTriples(links)]_vars

\* the graph has grown by a node and its link, and a node has been replaced
\* by a copy of higher mastery
C20_Witness ==
  /\ Len(nodes) > 1
  /\ Len(links) > 0
  /\ \E i \in DOMAIN nodes :
       obj[nodes[i]].mastery > 0 /\ obj[nodes[i]].mastery < MasteryMax

\* the positions of the node array that hold a node of category root
Roots == {i \in DOMAIN nodes : obj[nodes[i]].type = "root"}

\* C21: in every reachable state exactly one node has category root, and it
\* is the node the graph started with.
C21_OneRoot == Roots = {1} /\ obj[nodes[1]].id = INITIAL_NODE.id

\* the graph is full, and an expand result has added a node that repeats the
\* root's id without being a root
C21_Witness ==
  /\ Len(nodes) = MaxObjs
  /\ \E i \in DOMAIN nodes :
       i # 1 /\ obj[nodes[i]].id = INITIAL_NODE.id /\ obj[nodes[i]].type # "root"
  /\ \E i \in DOMAIN nodes : obj[nodes[i]].id = EvolvedId(0)

\* what accepting a suggestion of relation r adds, whatever id it gives the
\* new node: one node at the end of the node array, and one link at the end
\* of the link sequence, from the active node to the new node, of relation r
BranchAppends(r) ==
  /\ Len(nodes') = Len(nodes) + 1
  /\ \A i \in DOMAIN nodes : obj'[nodes'[i]].id = obj[nodes[i]].id
  /\ Len(links') = Len(links) + 1
  /\ SubSeq(LinkTriples(links'), 1, Len(links)) = LinkTriples(links)
  /\ LinkTriple(links'[Len(links')])
       = <<obj[activeNode].id, obj'[nodes'[Len(nodes')]].id, r>>

\* C22: accepting a branch suggestion adds exactly one node, of an id no
\* node has yet, and exactly one link, from the active node to the new node
\* with the suggestion's relation.
C22_BranchAddsFreshNode ==
  [][\A ty \in BatchTypes, r \in BatchRelations, t \in Clock :
       BranchEvolution(ty, r, t)
         => /\ BranchAppends(r)
            /\ obj'[nodes'[Len(nodes')]].id \notin NodeIds]_vars

Idle == ~crashed /\ cur # NoSim /\ ~sims[cur].running

\* C24: once the simulation is idle, any two distinct nodes are at least the
\* sum of their radii apart: no two are in one cell.
C24_SeparatedAtIdle ==
  Idle =>
    \A i, j \in DOMAIN sims[cur].nodes :
       i # j => Cell(obj[sims[cur].nodes[i]]) # Cell(obj[sims[cur].nodes[j]])

\* the node a node of id id is first linked to in the link sequence ls over
\* the node array ns, the root when no link names it
FirstNeighbour(heap, ns, ls, id) ==
  LET mine == {i \in DOMAIN ls : ls[i].source = id \/ ls[i].target = id}
      first == CHOOSE i \in mine : \A j \in mine : i <= j
      other == IF ls[first].source = id THEN ls[first].target ELSE ls[first].source
  IN IF mine = {} THEN ns[1] ELSE FindNode(heap, ns, other)

\* node n is placed by node m: in m's cell or in the next one (m + 50)
Near(n, m) ==
  /\ n.x \in {m.x, m.x + 1}
  /\ n.y \in {m.y, m.y + 1}

\* C25: a node added by an expand result or by an accepted suggestion has,
\* when the layout first holds it, a position near its first connected
\* neighbour (near the root when it has none).
C25_SeededNearNeighbour ==
  [][\A k \in DOMAIN nodes' :
       k > Len(nodes)
         => Near(obj'[nodes'[k]],
                 obj'[FirstNeighbour(obj', nodes', links', obj'[nodes'[k]].id)])]_vars

\* C26: whenever no drag is in progress, no node of the graph that is laid
\* out has a pin (fx or fy) set.
C26_NoPinWithoutDrag ==
  drag = NoDrag
    => \A i \in DOMAIN nodes :
         obj[nodes[i]].fx = NoCoord /\ obj[nodes[i]].fy = NoCoord

\* C27: between the pointer-down and the pointer-up of a drag the simulation
\* that lays out the graph does not go idle: its timer runs.
C27_AwakeWhileDragging ==
  (drag # NoDrag /\ ~crashed /\ cur # NoSim) => sims[cur].running

\* C28: a graph mutation leaves the viewport transform unchanged: the scale
\* and translation applied to the rendered graph after it are those applied
\* before it, in network and in timeline mode.
C28_MutationKeepsViewport ==
  [][(GraphMutates /\ appViewMode = "map" /\ cur # NoSim) => gT' = gT]_vars

\* C29: a suggestion is added to the graph at most once: a step that adds
\* to the graph takes the pending suggestion, adds one node and one link
\* and leaves no suggestion pending, so that a second accept has nothing to
\* add; a step that dismisses the pending suggestion leaves the node and
\* link sets as they were.
C29_SuggestionAddedOnce ==
  [][/\ Len(nodes') > Len(nodes)
          => /\ pendingSuggestion # NoSuggestion
             /\ pendingSuggestion' = NoSuggestion
             /\ Len(nodes') = Len(nodes) + 1
             /\ Len(links') = Len(links) + 1
             /\ links'[Len(links')].relation = pendingSuggestion.relation
     /\ (pendingSuggestion # NoSuggestion /\ pendingSuggestion' = NoSuggestion
           /\ Len(nodes') = Len(nodes))
          => UNCHANGED <<obj, nodes, links>>]_vars

\* a suggestion has been accepted: the graph holds the root and the node
\* that was added at a later reading of the clock, linked to each other, no
\* turn is in flight and no suggestion is pending
C29_Witness ==
  /\ Len(nodes) = 2
  /\ Len(links) = 1
  /\ activeNode # NoObj
  /\ lastRole = "ai"
  /\ turnReq = <<>>
  /\ pendingSuggestion = NoSuggestion
  /\ now > 0

\* C30: at most one debate turn of the DebateInterface is in flight at any
\* time.
C30_OneTurnInFlight ==
  Cardinality({i \in DOMAIN turnReq : turnReq[i].live}) <= 1

====
